---- MODULE Spec2Model ----
(***************************************************************************)
(* Model of the bill-extraction pipeline of src/main.py: the rasterizer    *)
(* fallback chain (pdf_or_image_to_pages), the model-response parser       *)
(* (find_json), the per-page extractor (call_gemini_page), the fuzzy       *)
(* deduplication (similarity, dedupe_items) and the orchestrator           *)
(* (extract_from_document).                                                *)
(*                                                                         *)
(* Strings are sequences of ASCII codes.  Floats are tagged values: a      *)
(* finite float is [k |-> "fin", v |-> n] with n counted in halves         *)
(* (n = 21 is 10.5; halves are exact in binary floating point), and the    *)
(* non-finite floats are "nan", "inf" and "ninf".                          *)
(***************************************************************************)
EXTENDS Integers, Sequences, FiniteSets, TLC

VARIABLES
    pc,               \* position of extract_from_document
    pages,            \* number of page images the rasterizer returned
    page_no,          \* pages processed so far
    calls,            \* page numbers of the model calls made, in order
    page_data,        \* per processed page, the page_type and the items the loop iterated
    all_items,        \* normalized items of all pages, in order
    pagewise_output,  \* one entry per processed page
    total_tokens, input_tokens, output_tokens,
    error,            \* the exception that ended the run, or "none"
    result,           \* what extract_from_document returned
    rUrl, rDoc, rFlaky, rOut, rStage,   \* pdf_or_image_to_pages applied to a document
    dItems, dOnce, dTwice, dStage,      \* dedupe_items applied to an input, then to its own output
    jText, jOut, jStage                 \* find_json applied to a text

pvars == <<pc, pages, page_no, calls, page_data, all_items, pagewise_output,
           total_tokens, input_tokens, output_tokens, error, result>>
rvars == <<rUrl, rDoc, rFlaky, rOut, rStage>>
dvars == <<dItems, dOnce, dTwice, dStage>>
jvars == <<jText, jOut, jStage>>
vars == <<pvars, rvars, dvars, jvars>>

---------------------------------------------------------------------------
(* Bounds of the model *)

\* pages a PDF conversion may return
MaxPages == 2
\* raw items the model may report over a whole document
MaxItems == 3
\* length of the item list handed to dedupe_items on its own
MaxLen == 3
\* tokens in a text handed to find_json on its own
MaxText == 4

---------------------------------------------------------------------------
(* Strings *)

\* str.lower() on ASCII
Lower(s) == [i \in 1..Len(s) |-> IF s[i] \in 65..90 THEN s[i] + 32 ELSE s[i]]

\* str.endswith
EndsWith(s, suf) ==
    /\ Len(s) >= Len(suf)
    /\ \A i \in 1..Len(suf) : s[Len(s) - Len(suf) + i] = suf[i]

DotPdf == <<46, 112, 100, 102>>

Syringe == <<83, 121, 114, 105, 110, 103, 101>>
SYRINGE == <<83, 89, 82, 73, 78, 71, 69>>
Syringes == <<83, 121, 114, 105, 110, 103, 101, 115>>
SyringesDot == <<83, 121, 114, 105, 110, 103, 101, 115, 46>>
Paracetamol500mg == <<80, 97, 114, 97, 99, 101, 116, 97, 109, 111, 108, 32, 53, 48, 48, 109, 103>>
Paracetamol500_mg == <<80, 97, 114, 97, 99, 101, 116, 97, 109, 111, 108, 32, 53, 48, 48, 32, 109, 103>>
Gauze == <<71, 97, 117, 122, 101>>

\* the item names the inputs are drawn from
NameList == <<Syringe, SYRINGE, Syringes, SyringesDot, Paracetamol500mg, Paracetamol500_mg, Gauze>>
Names == {NameList[i] : i \in 1..Len(NameList)}
NameIndex(s) == CHOOSE i \in 1..Len(NameList) : NameList[i] = s

---------------------------------------------------------------------------
(* Floats *)

Fin(n) == [k |-> "fin", v |-> n]
NaN == [k |-> "nan", v |-> 0]
PosInf == [k |-> "inf", v |-> 0]
NegInf == [k |-> "ninf", v |-> 0]

IsFinite(x) == x.k = "fin"

\* float subtraction a - b
FSub(a, b) ==
    IF a.k = "nan" \/ b.k = "nan" THEN NaN
    ELSE IF a.k = "fin" /\ b.k = "fin" THEN Fin(a.v - b.v)
    ELSE IF a.k = "fin" THEN (IF b.k = "inf" THEN NegInf ELSE PosInf)
    ELSE IF b.k = "fin" THEN a
    ELSE IF a.k = b.k THEN NaN
    ELSE a

\* abs(x)
FAbs(x) ==
    IF x.k = "fin" THEN Fin(IF x.v < 0 THEN -x.v ELSE x.v)
    ELSE IF x.k = "ninf" THEN PosInf
    ELSE x

\* x <= t for a finite t given in halves
FLeq(x, t) == x.k = "ninf" \/ (x.k = "fin" /\ x.v <= t)

---------------------------------------------------------------------------
(* difflib.SequenceMatcher(None, a, b).ratio(), as similarity uses it *)

\* length of the common run of a and b starting at 0-based i and j inside [_, ahi) x [_, bhi)
RECURSIVE RunLen(_, _, _, _, _, _)
RunLen(a, b, i, j, ahi, bhi) ==
    IF i < ahi /\ j < bhi /\ a[i + 1] = b[j + 1]
    THEN 1 + RunLen(a, b, i + 1, j + 1, ahi, bhi)
    ELSE 0

\* find_longest_match: the longest block, of those the one starting earliest in a,
\* of those the one starting earliest in b; <<i, j, 0>> with no common element
LongestMatch(a, b, alo, ahi, blo, bhi) ==
    LET cands == {p \in (alo..(ahi - 1)) \X (blo..(bhi - 1)) : a[p[1] + 1] = b[p[2] + 1]}
        len(p) == RunLen(a, b, p[1], p[2], ahi, bhi)
        better(p, q) == \/ len(p) > len(q)
                        \/ len(p) = len(q) /\ p[1] < q[1]
                        \/ len(p) = len(q) /\ p[1] = q[1] /\ p[2] <= q[2]
    IN  IF cands = {} THEN <<alo, blo, 0>>
        ELSE LET best == CHOOSE p \in cands : \A q \in cands : better(p, q)
             IN  <<best[1], best[2], len(best)>>

\* sum of the sizes of get_matching_blocks over a[alo:ahi], b[blo:bhi]
RECURSIVE MatchTotal(_, _, _, _, _, _)
MatchTotal(a, b, alo, ahi, blo, bhi) ==
    LET m == LongestMatch(a, b, alo, ahi, blo, bhi)
        i == m[1]
        j == m[2]
        k == m[3]
    IN  IF k = 0 THEN 0
        ELSE k
             + (IF alo < i /\ blo < j THEN MatchTotal(a, b, alo, i, blo, j) ELSE 0)
             + (IF i + k < ahi /\ j + k < bhi THEN MatchTotal(a, b, i + k, ahi, j + k, bhi) ELSE 0)

\* ratio() as the fraction <<2 * matches, length>>; 1.0 when both strings are empty
Ratio(a, b) ==
    IF Len(a) + Len(b) = 0 THEN <<1, 1>>
    ELSE <<2 * MatchTotal(a, b, 0, Len(a), 0, Len(b)), Len(a) + Len(b)>>

\* similarity(a, b), as a fraction
similarity(a, b) == Ratio(Lower(a), Lower(b))

\* the similarities of the names in use, computed once: SimilarityTable[i][j] is
\* similarity(NameList[i], NameList[j])
RECURSIVE SimilarityRow(_, _, _)
SimilarityRow(i, j, acc) ==
    IF j > Len(NameList) THEN acc
    ELSE SimilarityRow(i, j + 1, Append(acc, similarity(NameList[i], NameList[j])))
RECURSIVE SimilarityRows(_, _)
SimilarityRows(i, acc) ==
    IF i > Len(NameList) THEN acc
    ELSE SimilarityRows(i + 1, Append(acc, SimilarityRow(i, 1, <<>>)))
SimilarityTable == SimilarityRows(1, <<>>)

\* threshold=0.92, as a fraction
ThresholdNum == 92
ThresholdDen == 100
\* tol=1.0, in halves
Tol == 2

Str(s) == [k |-> "str", s |-> s]
NullName == [k |-> "null", s |-> <<>>]

\* similarity(a, b) >= threshold; precondition: both are strings
similarity_ge(a, b) ==
    LET r == IF a.s \in Names /\ b.s \in Names
             THEN SimilarityTable[NameIndex(a.s)][NameIndex(b.s)]
             ELSE similarity(a.s, b.s)
    IN  r[1] * ThresholdDen >= ThresholdNum * r[2]

\* similarity raises AttributeError when a or b has no lower()
similarity_raises(a, b) == a.k # "str" \/ b.k # "str"

---------------------------------------------------------------------------
(* dedupe_items *)

\* line 156 with the tolerance compared strictly
IsDuplicate_StrictTol(it, u) ==
    /\ similarity_ge(it.item_name, u.item_name)
    /\ LET d == FAbs(FSub(it.item_amount, u.item_amount))
       IN  d.k = "fin" /\ d.v < Tol

\* the condition of line 156 for candidate it against accepted u
IsDuplicate(it, u) ==
    /\ similarity_ge(it.item_name, u.item_name)
    /\ FLeq(FAbs(FSub(it.item_amount, u.item_amount)), Tol)

\* the inner loop over unique from position j: "dup", "new" or "raise"
RECURSIVE ScanUnique(_, _, _)
ScanUnique(it, unique, j) ==
    IF j > Len(unique) THEN "new"
    ELSE IF similarity_raises(it.item_name, unique[j].item_name) THEN "raise"
    ELSE IF IsDuplicate(it, unique[j]) THEN "dup"
    ELSE ScanUnique(it, unique, j + 1)

\* the outer loop from position i with the accepted list so far
RECURSIVE DedupeLoop(_, _, _)
DedupeLoop(items, i, unique) ==
    IF i > Len(items) THEN [ok |-> TRUE, v |-> unique]
    ELSE LET r == ScanUnique(items[i], unique, 1)
         IN  IF r = "raise" THEN [ok |-> FALSE, v |-> <<>>]
             ELSE IF r = "dup" THEN DedupeLoop(items, i + 1, unique)
             ELSE DedupeLoop(items, i + 1, Append(unique, items[i]))

\* dedupe_items with the last occurrence winning: a duplicate replaces the
\* accepted item it matches
RECURSIVE FirstMatch(_, _, _)
FirstMatch(it, unique, j) ==
    IF j > Len(unique) THEN 0
    ELSE IF IsDuplicate(it, unique[j]) THEN j
    ELSE FirstMatch(it, unique, j + 1)
RECURSIVE LastWinsLoop(_, _, _)
LastWinsLoop(items, i, unique) ==
    IF i > Len(items) THEN [ok |-> TRUE, v |-> unique]
    ELSE LET j == FirstMatch(items[i], unique, 1)
         IN  IF j = 0 THEN LastWinsLoop(items, i + 1, Append(unique, items[i]))
             ELSE LastWinsLoop(items, i + 1, [unique EXCEPT ![j] = items[i]])
dedupe_items_LastWins(items) == LastWinsLoop(items, 1, <<>>)

dedupe_items(items) == DedupeLoop(items, 1, <<>>)

---------------------------------------------------------------------------
(* find_json *)

(* A text is a sequence of tokens.  "{" and "}" are the two characters find_json
   looks for; "[" and "]" delimit a list; "kv" is a complete member whose value
   holds no brace ("amount": 5); "key" is a member's key and colon, awaiting an
   object or a list; "," is the separator; "w" is any prose holding no brace. *)
Tokens == {"{", "}", "[", "]", "kv", "key", ",", "w"}

\* str.find(c): 0-based position of the first c, -1 when there is none
Find(text, c) ==
    IF \E i \in 1..Len(text) : text[i] = c
    THEN (CHOOSE i \in 1..Len(text) : text[i] = c /\ \A j \in 1..(i - 1) : text[j] # c) - 1
    ELSE -1

\* str.rfind(c): 0-based position of the last c, -1 when there is none
RFind(text, c) ==
    IF \E i \in 1..Len(text) : text[i] = c
    THEN (CHOOSE i \in 1..Len(text) : text[i] = c /\ \A j \in (i + 1)..Len(text) : text[j] # c) - 1
    ELSE -1

\* text[lo:hi] for 0 <= lo, 0 <= hi: empty when hi <= lo
Slice(text, lo, hi) ==
    LET h == IF hi > Len(text) THEN Len(text) ELSE hi
    IN  IF h <= lo THEN <<>> ELSE SubSeq(text, lo + 1, h)

\* a decoded value: a scalar, or an object or list with its members' values in order
Scalar == [t |-> "scalar", c |-> <<>>]
Obj(members) == [t |-> "obj", c |-> members]
List(elems) == [t |-> "list", c |-> elems]
ParseFail == [ok |-> FALSE, next |-> 0, val |-> Scalar]
Parsed(next, val) == [ok |-> TRUE, next |-> next, val |-> val]

\* json's decoder: the value starting at t[i], and the position after it
RECURSIVE ParseValue(_, _), ParseMembers(_, _, _), ParseElems(_, _, _)
ParseValue(t, i) ==
    IF i + 1 > Len(t) THEN ParseFail
    ELSE IF t[i] = "{"
         THEN IF t[i + 1] = "}" THEN Parsed(i + 2, Obj(<<>>)) ELSE ParseMembers(t, i + 1, <<>>)
    ELSE IF t[i] = "["
         THEN IF t[i + 1] = "]" THEN Parsed(i + 2, List(<<>>)) ELSE ParseElems(t, i + 1, <<>>)
    ELSE ParseFail

\* the members of an object from t[i] to its closing brace
ParseMembers(t, i, acc) ==
    LET m == IF i > Len(t) THEN ParseFail
             ELSE IF t[i] = "kv" THEN Parsed(i + 1, Scalar)
             ELSE IF t[i] = "key" THEN ParseValue(t, i + 1)
             ELSE ParseFail
    IN  IF ~m.ok \/ m.next > Len(t) THEN ParseFail
        ELSE IF t[m.next] = "}" THEN Parsed(m.next + 1, Obj(Append(acc, m.val)))
        ELSE IF t[m.next] = "," THEN ParseMembers(t, m.next + 1, Append(acc, m.val))
        ELSE ParseFail

\* the elements of a list from t[i] to its closing bracket
ParseElems(t, i, acc) ==
    LET e == ParseValue(t, i)
    IN  IF ~e.ok \/ e.next > Len(t) THEN ParseFail
        ELSE IF t[e.next] = "]" THEN Parsed(e.next + 1, List(Append(acc, e.val)))
        ELSE IF t[e.next] = "," THEN ParseElems(t, e.next + 1, Append(acc, e.val))
        ELSE ParseFail

\* json.loads(s): the whole of s must be one value
json_loads(s) ==
    LET r == ParseValue(s, 1)
    IN  IF r.ok /\ r.next = Len(s) + 1 THEN [ok |-> TRUE, val |-> r.val]
        ELSE [ok |-> FALSE, val |-> Scalar]

NoJsonDetail == "Gemini output contains no JSON"
ParseFailedDetail == "JSON parsing failed"

Raised(code, detail) ==
    [kind |-> "HTTPException", status_code |-> code, detail |-> detail, val |-> Scalar]
Returned(v) == [kind |-> "return", status_code |-> 0, detail |-> "", val |-> v]

\* find_json taking the first "}" instead of the last
find_json_FirstClose(text) ==
    LET start == Find(text, "{")
        end == Find(text, "}")
    IN  IF start = -1 \/ end = -1 THEN Raised(500, NoJsonDetail)
        ELSE LET r == json_loads(Slice(text, start, end + 1))
             IN  IF r.ok THEN Returned(r.val) ELSE Raised(500, ParseFailedDetail)

find_json(text) ==
    LET start == Find(text, "{")
        end == RFind(text, "}")
    IN  IF start = -1 \/ end = -1 THEN Raised(500, NoJsonDetail)
        ELSE LET r == json_loads(Slice(text, start, end + 1))
             IN  IF r.ok THEN Returned(r.val) ELSE Raised(500, ParseFailedDetail)

---------------------------------------------------------------------------
(* The model's responses *)

\* a raw JSON value of a numeric field, or the key's absence
Num(n) == [k |-> "num", v |-> n]          \* a JSON number, in halves
NumStr(n) == [k |-> "numstr", v |-> n]    \* a string float() parses, such as "10.5"
BadStr == [k |-> "badstr", v |-> 0]       \* a string float() rejects, such as "N/A"
NanLit == [k |-> "nanlit", v |-> 0]       \* the literal NaN, which json.loads accepts
InfLit == [k |-> "inflit", v |-> 0]       \* the literal Infinity, or a number such as 1e999
Null == [k |-> "null", v |-> 0]
Missing == [k |-> "missing", v |-> 0]
MissingName == [k |-> "missing", s |-> <<>>]

RawItem(name, amount, rate, quantity) ==
    [dict |-> TRUE, item_name |-> name, amount |-> amount, rate |-> rate, quantity |-> quantity]

\* an element of "items" that is no object, such as a bare string
NotADict == [dict |-> FALSE, item_name |-> MissingName, amount |-> Missing, rate |-> Missing,
             quantity |-> Missing]

RawA == RawItem(Str(Paracetamol500mg), Num(20), Num(10), Num(4))
RawADup == RawItem(Str(Paracetamol500_mg), Num(21), Num(10), Num(4))
RawB == RawItem(Str(Syringe), NumStr(10), Num(10), Num(2))
RawNoRate == RawItem(Str(Gauze), Num(6), Missing, Num(2))
RawBadAmount == RawItem(Str(Gauze), BadStr, Num(3), Null)
RawNanAmount == RawItem(Str(Gauze), NanLit, Num(3), Num(2))
RawNullName == RawItem(NullName, Num(6), Num(3), Num(2))

\* the raw items a page's "items" list is drawn from
RawPool == {RawA, RawADup, RawB, RawNoRate, RawBadAmount, RawNanAmount, RawNullName}

AbsentItems == [k |-> "absent", v |-> <<>>]
NullItems == [k |-> "null", v |-> <<>>]
ListItems(l) == [k |-> "list", v |-> l]

\* the dict a well-formed response denotes: page_type ("" when the key is absent) and items
Data(pt, items) == [page_type |-> pt, items |-> items]

\* res.usage_metadata: the attribute may be absent or None; a counter of the
\* object may be absent, unset (None) or an integer
NoCounter == [k |-> "missing", v |-> 0]
UnsetCounter == [k |-> "unset", v |-> 0]
Counter(n) == [k |-> "int", v |-> n]
UsageObj(t, i, o) ==
    [k |-> "obj", total_token_count |-> t, input_token_count |-> i, output_token_count |-> o]
NoUsageAttr == [k |-> "noattr", total_token_count |-> NoCounter, input_token_count |-> NoCounter,
                output_token_count |-> NoCounter]
UsageNone == [k |-> "none", total_token_count |-> NoCounter, input_token_count |-> NoCounter,
              output_token_count |-> NoCounter]

\* texts a response may carry: bare JSON, JSON in prose
BareJson == <<"{", "kv", ",", "key", "[", "{", "kv", "}", "]", "}">>
JsonInProse == <<"w", "{", "kv", ",", "key", "[", "{", "kv", "}", "]", "}", "w">>
\* prose only, an unclosed object, braces in the wrong order, a missing separator
BadTexts == {<<"w">>, <<"{", "kv">>, <<"}", "{">>, <<"{", "kv", "kv", "}">>}

\* what surrounds the items of a response: its text, its page_type ("" when the
\* key is absent) and its usage metadata
Envelope(text, pt, usage) == [text |-> text, page_type |-> pt, usage |-> usage]
Envelopes ==
    {Envelope(BareJson, "", NoUsageAttr),
     Envelope(JsonInProse, "", UsageNone),
     Envelope(JsonInProse, "Pharmacy", UsageObj(Counter(7), Counter(5), NoCounter))}

\* generate_content raised, or returned res
CallFailed == [call |-> "raise", text |-> <<>>, data |-> Data("", AbsentItems), usage |-> NoUsageAttr]
Response(text, data, usage) == [call |-> "ok", text |-> text, data |-> data, usage |-> usage]

\* all sequences over S of length at most n
SeqsUpTo(S, n) == UNION {[1..m -> S] : m \in 0..n}

---------------------------------------------------------------------------
(* call_gemini_page *)

IntVal(n) == [k |-> "int", v |-> n]
NoneVal == [k |-> "none", v |-> 0]

\* getattr(usage, name, 0) if usage else 0, for the counter c of that name
UsageCounter(usage, c) ==
    IF usage.k # "obj" THEN IntVal(0)
    ELSE IF c.k = "missing" THEN IntVal(0)
    ELSE IF c.k = "unset" THEN NoneVal
    ELSE IntVal(c.v)

PageRaised(what) == [kind |-> "raise", error |-> what, data |-> Data("", AbsentItems),
                     t |-> IntVal(0), i |-> IntVal(0), o |-> IntVal(0)]

call_gemini_page(res) ==
    IF res.call = "raise" THEN PageRaised("model call failed")
    ELSE LET found == find_json(res.text)
         IN  IF found.kind # "return" THEN PageRaised(found.detail)
             ELSE [kind |-> "return", error |-> "none", data |-> res.data,
                   t |-> UsageCounter(res.usage, res.usage.total_token_count),
                   i |-> UsageCounter(res.usage, res.usage.input_token_count),
                   o |-> UsageCounter(res.usage, res.usage.output_token_count)]

---------------------------------------------------------------------------
(* extract_from_document: the item loop *)

\* float(x): a float, or an exception
ToFloat(x) ==
    IF x.k \in {"num", "numstr"} THEN [ok |-> TRUE, v |-> Fin(x.v)]
    ELSE IF x.k = "nanlit" THEN [ok |-> TRUE, v |-> NaN]
    ELSE IF x.k = "inflit" THEN [ok |-> TRUE, v |-> PosInf]
    ELSE [ok |-> FALSE, v |-> NaN]

NoItem == [item_name |-> NullName, item_amount |-> NaN, item_rate |-> NaN, item_quantity |-> NaN]

\* lines 189-194: the normalized item, or an exception for the bare except to swallow
NormalizeItem(item) ==
    IF ~item.dict \/ item.item_name.k = "missing" THEN [ok |-> FALSE, itm |-> NoItem]
    ELSE LET a == ToFloat(item.amount)
             r == ToFloat(item.rate)
             q == ToFloat(item.quantity)
         IN  IF a.ok /\ r.ok /\ q.ok
             THEN [ok |-> TRUE, itm |-> [item_name |-> item.item_name, item_amount |-> a.v,
                                         item_rate |-> r.v, item_quantity |-> q.v]]
             ELSE [ok |-> FALSE, itm |-> NoItem]

\* lines 185-198: the page's normalized items, in order, from position i
RECURSIVE NormalizeFrom(_, _, _)
NormalizeFrom(raw, i, acc) ==
    IF i > Len(raw) THEN acc
    ELSE LET n == NormalizeItem(raw[i])
         IN  NormalizeFrom(raw, i + 1, IF n.ok THEN Append(acc, n.itm) ELSE acc)

NormalizeItems(raw) == NormalizeFrom(raw, 1, <<>>)

\* lines 200-204 with enumerate starting at 0
PageEntry_ZeroBased(no, data, items) ==
    [page_no |-> no - 1,
     page_type |-> IF data.page_type = "" THEN "Bill Detail" ELSE data.page_type,
     bill_items |-> items]

\* lines 200-204
PageEntry(no, data, items) ==
    [page_no |-> no,
     page_type |-> IF data.page_type = "" THEN "Bill Detail" ELSE data.page_type,
     bill_items |-> items]

NoResult == [returned |-> FALSE, pagewise_output |-> <<>>, unique_items |-> <<>>,
             total_item_count |-> 0, total_tokens |-> 0, input_tokens |-> 0, output_tokens |-> 0]

\* lines 206-209 counting all_items instead of unique_items
FinalResult_CountAll(pw, all, tt, it, ot) ==
    LET u == dedupe_items(all)
    IN  IF ~u.ok THEN [ok |-> FALSE, res |-> NoResult]
        ELSE [ok |-> TRUE,
              res |-> [returned |-> TRUE, pagewise_output |-> pw, unique_items |-> u.v,
                       total_item_count |-> Len(all), total_tokens |-> tt,
                       input_tokens |-> it, output_tokens |-> ot]]

\* lines 206-209: the returned tuple, or the exception dedupe_items raised
FinalResult(pw, all, tt, it, ot) ==
    LET u == dedupe_items(all)
    IN  IF ~u.ok THEN [ok |-> FALSE, res |-> NoResult]
        ELSE [ok |-> TRUE,
              res |-> [returned |-> TRUE, pagewise_output |-> pw, unique_items |-> u.v,
                       total_item_count |-> Len(u.v), total_tokens |-> tt,
                       input_tokens |-> it, output_tokens |-> ot]]

---------------------------------------------------------------------------
(* pdf_or_image_to_pages *)

BillPdf == <<98, 105, 108, 108, 46, 112, 100, 102>>
BillPdfUpper == <<66, 73, 76, 76, 46, 80, 68, 70>>
ScanPng == <<115, 99, 97, 110, 46, 112, 110, 103>>
BillPdfPng == <<98, 105, 108, 108, 46, 112, 100, 102, 46, 112, 110, 103>>

\* the source hints: bill.pdf, BILL.PDF, scan.png, bill.pdf.png
Urls == {BillPdf, BillPdfUpper, ScanPng, BillPdfPng}

\* what the bytes are: a PDF of n pages, an image, or neither
PdfDoc(n) == [kind |-> "pdf", n |-> n]
ImageDoc == [kind |-> "img", n |-> 1]
Garbage == [kind |-> "garbage", n |-> 0]
Docs == {PdfDoc(n) : n \in 1..MaxPages} \cup {ImageDoc, Garbage}

\* the positions in the chain at which a decoder fails whatever the bytes are
\* (poppler missing, out of memory): any subset of the three attempts
Flakies == SUBSET (1..3)

\* lines 80 and 83
IsPdfHint(u) == EndsWith(Lower(u), DotPdf)

\* line 83 without the lower() of line 80
FirstDecoder_CaseSensitive(u) == IF EndsWith(u, DotPdf) THEN "pdf" ELSE "img"

\* lines 83-87: the decoder of the try block
FirstDecoder(u) == IF IsPdfHint(u) THEN "pdf" ELSE "img"

\* lines 82-94: the decoders in the order control reaches them, each reached
\* only when the one before it raised
DecoderChain(u) == <<FirstDecoder(u), "pdf", "img">>

\* convert_from_bytes gives the PDF's pages, Image.open(...).convert("RGB") one image
Decodes(d, doc) == (d = "pdf" /\ doc.kind = "pdf") \/ (d = "img" /\ doc.kind = "img")

Attempt(d, ok) == [decoder |-> d, ok |-> ok]

RECURSIVE TryChain(_, _, _, _, _)
TryChain(doc, chain, i, flaky, log) ==
    IF i > Len(chain) THEN [ok |-> FALSE, pages |-> 0, from |-> "none", attempts |-> log]
    ELSE IF Decodes(chain[i], doc) /\ i \notin flaky
         THEN [ok |-> TRUE, pages |-> doc.n, from |-> chain[i],
               attempts |-> Append(log, Attempt(chain[i], TRUE))]
         ELSE TryChain(doc, chain, i + 1, flaky, Append(log, Attempt(chain[i], FALSE)))

\* the pages returned (ok), or the last decoder's exception, with the attempts made
pdf_or_image_to_pages(file_bytes, u, flaky) == TryChain(file_bytes, DecoderChain(u), 1, flaky, <<>>)

---------------------------------------------------------------------------
(* extract_from_document *)

\* responses on which the page fails whatever its items are: the call itself
\* raises, the text holds no JSON object, a usage counter is unset, "items" is null
FailingResponses ==
    {CallFailed}
    \cup {Response(t, Data("", AbsentItems), NoUsageAttr) : t \in BadTexts}
    \cup {Response(BareJson, Data("Pharmacy", ListItems(<<RawA>>)),
                   UsageObj(UnsetCounter, Counter(5), Counter(2))),
          Response(BareJson, Data("Pharmacy", ListItems(<<RawA>>)),
                   UsageObj(Counter(7), Counter(5), UnsetCounter)),
          Response(BareJson, Data("", NullItems), NoUsageAttr)}

\* an exception leaves extract_from_document: nothing is returned and the
\* function's locals are gone
Fail(what) ==
    /\ pc' = "failed"
    /\ error' = what
    /\ page_no' = 0 /\ page_data' = <<>>
    /\ all_items' = <<>> /\ pagewise_output' = <<>>
    /\ total_tokens' = 0 /\ input_tokens' = 0 /\ output_tokens' = 0
    /\ result' = NoResult

\* line 169
Rasterize ==
    /\ pc = "start"
    /\ \E u \in Urls, doc \in Docs, flaky \in Flakies :
        \E r \in {pdf_or_image_to_pages(doc, u, flaky)} :
          IF r.ok
          THEN /\ pages' = r.pages
               /\ pc' = "loop"
               /\ UNCHANGED <<page_no, page_data, all_items, pagewise_output, total_tokens,
                              input_tokens, output_tokens, error, result>>
          ELSE Fail("decoding failed") /\ pages' = pages
    /\ UNCHANGED calls
    /\ UNCHANGED <<rvars, dvars, jvars>>

\* the body of the loop with a page whose call raises skipped instead of fatal
PageStep_SkipFailed(no, res) ==
    \E r \in {call_gemini_page(res)} :
        /\ calls' = Append(calls, no)
        /\ IF r.kind = "raise"
           THEN /\ page_no' = no
                /\ UNCHANGED <<pc, page_data, all_items, pagewise_output, total_tokens,
                               input_tokens, output_tokens, error, result>>
           ELSE IF r.t.k = "none" \/ r.i.k = "none" \/ r.o.k = "none"
                THEN Fail("TypeError: int += None")
           ELSE IF r.data.items.k = "null"
                THEN Fail("TypeError: NoneType is not iterable")
           ELSE \E page_items \in {NormalizeItems(r.data.items.v)} :
                    /\ total_tokens' = total_tokens + r.t.v
                    /\ input_tokens' = input_tokens + r.i.v
                    /\ output_tokens' = output_tokens + r.o.v
                    /\ all_items' = all_items \o page_items
                    /\ pagewise_output' = Append(pagewise_output, PageEntry(no, r.data, page_items))
                    /\ page_data' = Append(page_data, Data(r.data.page_type, r.data.items.v))
                    /\ page_no' = no
                    /\ UNCHANGED <<pc, error, result>>

\* lines 179-204: the body of the loop for the response res of page no
PageStep(no, res) ==
    \E r \in {call_gemini_page(res)} :
        /\ calls' = Append(calls, no)
        /\ IF r.kind = "raise" THEN Fail(r.error)
           ELSE IF r.t.k = "none" \/ r.i.k = "none" \/ r.o.k = "none"
                THEN Fail("TypeError: int += None")
           ELSE IF r.data.items.k = "null"
                THEN Fail("TypeError: NoneType is not iterable")
           ELSE \E page_items \in {NormalizeItems(r.data.items.v)} :
                    /\ total_tokens' = total_tokens + r.t.v
                    /\ input_tokens' = input_tokens + r.i.v
                    /\ output_tokens' = output_tokens + r.o.v
                    /\ all_items' = all_items \o page_items
                    /\ pagewise_output' = Append(pagewise_output, PageEntry(no, r.data, page_items))
                    /\ page_data' = Append(page_data, Data(r.data.page_type, r.data.items.v))
                    /\ page_no' = no
                    /\ UNCHANGED <<pc, error, result>>

RECURSIVE RawCount(_, _)
\* raw items the pages from position i on have reported
RawCount(ds, i) == IF i > Len(ds) THEN 0 ELSE Len(ds[i].items) + RawCount(ds, i + 1)

\* lines 178-204: one iteration of the loop over the pages; the model answers
\* with any response that keeps the document within MaxItems raw items
ProcessPage ==
    /\ pc = "loop"
    /\ page_no < pages
    /\ \/ \E res \in FailingResponses : PageStep(page_no + 1, res)
       \/ \E e \in Envelopes :
            \/ PageStep(page_no + 1, Response(e.text, Data(e.page_type, AbsentItems), e.usage))
            \/ \E m \in 0..(MaxItems - RawCount(page_data, 1)) : \E l \in [1..m -> RawPool] :
                    PageStep(page_no + 1, Response(e.text, Data(e.page_type, ListItems(l)), e.usage))
    /\ UNCHANGED pages
    /\ UNCHANGED <<rvars, dvars, jvars>>

\* lines 206-209
Return ==
    /\ pc = "loop"
    /\ page_no = pages
    /\ \E f \in {FinalResult(pagewise_output, all_items, total_tokens, input_tokens, output_tokens)} :
          IF f.ok
          THEN /\ pc' = "done"
               /\ result' = f.res
               /\ UNCHANGED <<page_no, page_data, all_items, pagewise_output,
                              total_tokens, input_tokens, output_tokens, error>>
          ELSE Fail("AttributeError: no attribute lower")
    /\ UNCHANGED <<pages, calls>>
    /\ UNCHANGED <<rvars, dvars, jvars>>

---------------------------------------------------------------------------
(* Specifications *)

PipelineIdle ==
    /\ pc = "idle" /\ pages = 0 /\ page_no = 0 /\ calls = <<>> /\ page_data = <<>>
    /\ all_items = <<>> /\ pagewise_output = <<>>
    /\ total_tokens = 0 /\ input_tokens = 0 /\ output_tokens = 0
    /\ error = "none" /\ result = NoResult

NotRun == [ok |-> FALSE, v |-> <<>>]
NotRasterized == [ok |-> FALSE, pages |-> 0, from |-> "none", attempts |-> <<>>]
RasterIdle ==
    rUrl = <<>> /\ rDoc = Garbage /\ rFlaky = {} /\ rOut = NotRasterized /\ rStage = "idle"
DedupeIdle == dItems = <<>> /\ dOnce = NotRun /\ dTwice = NotRun /\ dStage = "idle"
ParseIdle == jText = <<>> /\ jOut = Raised(0, "") /\ jStage = "idle"

\* extract_from_document(file_bytes, url), from its call to its return or exception
Init ==
    /\ pc = "start" /\ pages = 0 /\ page_no = 0 /\ calls = <<>> /\ page_data = <<>>
    /\ all_items = <<>> /\ pagewise_output = <<>>
    /\ total_tokens = 0 /\ input_tokens = 0 /\ output_tokens = 0
    /\ error = "none" /\ result = NoResult
    /\ RasterIdle /\ DedupeIdle /\ ParseIdle

Next == Rasterize \/ ProcessPage \/ Return

Spec == Init /\ [][Next]_vars

RasterInit ==
    /\ PipelineIdle /\ DedupeIdle /\ ParseIdle
    /\ rUrl \in Urls /\ rDoc \in Docs /\ rFlaky \in Flakies
    /\ rOut = NotRasterized /\ rStage = "input"

\* pages = pdf_or_image_to_pages(file_bytes, url)
RasterCall ==
    /\ rStage = "input"
    /\ rOut' = pdf_or_image_to_pages(rDoc, rUrl, rFlaky)
    /\ rStage' = "done"
    /\ UNCHANGED <<rUrl, rDoc, rFlaky, pvars, dvars, jvars>>

RasterNext == RasterCall

SpecRaster == RasterInit /\ [][RasterNext]_vars

\* items dedupe_items is applied to on its own
Item(name, amount, rate, quantity) ==
    [item_name |-> Str(name), item_amount |-> amount, item_rate |-> rate, item_quantity |-> quantity]

Syringe5 == Item(Syringe, Fin(10), Fin(10), Fin(2))
Syringe5Twin == Item(Syringe, Fin(10), Fin(5), Fin(4))
Syringe8 == Item(Syringe, Fin(16), Fin(16), Fin(2))
SYRINGE5_5 == Item(SYRINGE, Fin(11), Fin(11), Fin(2))
Syringes6 == Item(Syringes, Fin(12), Fin(12), Fin(2))
SyringesDot6_5 == Item(SyringesDot, Fin(13), Fin(13), Fin(2))
Paracetamol10 == Item(Paracetamol500mg, Fin(20), Fin(10), Fin(4))
Paracetamol10_5 == Item(Paracetamol500_mg, Fin(21), Fin(10), Fin(4))
SyringeNaN == Item(Syringe, NaN, Fin(10), Fin(2))
GauzeInf == Item(Gauze, PosInf, Fin(3), Fin(2))

ItemPool == {Syringe5, Syringe5Twin, Syringe8, SYRINGE5_5, Syringes6, SyringesDot6_5,
             Paracetamol10, Paracetamol10_5, SyringeNaN, GauzeInf}

DedupeInit ==
    /\ PipelineIdle /\ RasterIdle /\ ParseIdle
    /\ dItems \in SeqsUpTo(ItemPool, MaxLen)
    /\ dOnce = NotRun /\ dTwice = NotRun /\ dStage = "input"

\* unique = dedupe_items(items)
DedupeOnce ==
    /\ dStage = "input"
    /\ dOnce' = dedupe_items(dItems)
    /\ dStage' = "once"
    /\ UNCHANGED <<dItems, dTwice, pvars, rvars, jvars>>

\* dedupe_items(unique)
DedupeTwice ==
    /\ dStage = "once"
    /\ dOnce.ok
    /\ dTwice' = dedupe_items(dOnce.v)
    /\ dStage' = "twice"
    /\ UNCHANGED <<dItems, dOnce, pvars, rvars, jvars>>

DedupeNext == DedupeOnce \/ DedupeTwice

SpecDedupe == DedupeInit /\ [][DedupeNext]_vars

ParseInit ==
    /\ PipelineIdle /\ RasterIdle /\ DedupeIdle
    /\ jText \in SeqsUpTo(Tokens, MaxText)
    /\ jOut = Raised(0, "") /\ jStage = "input"

\* find_json(text)
ParseCall ==
    /\ jStage = "input"
    /\ jOut' = find_json(jText)
    /\ jStage' = "done"
    /\ UNCHANGED <<jText, pvars, rvars, dvars>>

ParseNext == ParseCall

SpecParse == ParseInit /\ [][ParseNext]_vars

---------------------------------------------------------------------------
(* Properties *)

\* the bill_items of all entries of pw, concatenated in page order
RECURSIVE Flatten(_, _)
Flatten(pw, i) == IF i > Len(pw) THEN <<>> ELSE pw[i].bill_items \o Flatten(pw, i + 1)

\* the raw items of l that have all four keys and whose numbers float() accepts
Coercible(x) == x.k \in {"num", "numstr", "nanlit", "inflit"}
HasAllFields(raw) ==
    /\ raw.dict
    /\ raw.item_name.k # "missing"
    /\ Coercible(raw.amount) /\ Coercible(raw.rate) /\ Coercible(raw.quantity)
KeptPositions(l) == {i \in 1..Len(l) : HasAllFields(l[i])}

\* C1: on a successful run total_item_count is the length of dedupe_items applied
\* to the concatenation, in page order, of all pages' bill_items, while every
\* page's bill_items still holds one item per raw item of the page that
\* normalizes, duplicates included; pages [B, A] and [A-duplicate] give lengths
\* 2 and 1 and total_item_count 2.
C1_CountIsDedupedConcat ==
    pc = "done" =>
        /\ result.returned
        /\ result.total_item_count = Len(dedupe_items(Flatten(result.pagewise_output, 1)).v)
        /\ result.total_item_count = Len(result.unique_items)
        /\ \A k \in 1..Len(result.pagewise_output) :
              Len(result.pagewise_output[k].bill_items) = Cardinality(KeptPositions(page_data[k].items))
        /\ (Len(page_data) = 2 /\ page_data[1].items = <<RawB, RawA>> /\ page_data[2].items = <<RawADup>>)
              => /\ Len(result.pagewise_output[1].bill_items) = 2
                 /\ Len(result.pagewise_output[2].bill_items) = 1
                 /\ result.total_item_count = 2

C1_Witness ==
    /\ pc = "done"
    /\ Len(page_data) = 2
    /\ page_data[1].items = <<RawB, RawA>>
    /\ page_data[2].items = <<RawADup>>
    /\ result.total_item_count = 2
    /\ Len(Flatten(result.pagewise_output, 1)) = 3

\* C2: dedupe_items is idempotent: applied to its own output it returns that
\* output, element for element and in the same order.
C2_DedupeIdempotent ==
    /\ dStage \in {"once", "twice"} => dOnce.ok
    /\ dStage = "twice" => dTwice.ok /\ dTwice.v = dOnce.v

C2_Witness ==
    /\ dStage = "twice"
    /\ dItems = <<SyringesDot6_5, Syringe5, Syringes6>>
    /\ dOnce.v = <<SyringesDot6_5, Syringe5>>
    /\ dTwice.v = dOnce.v

\* the duplicate test as the claim words it: case-insensitive name similarity
\* at least 0.92 and absolute amount difference at most 1.0 (2 halves)
C3_Matches(it, u) ==
    /\ LET r == SimilarityTable[NameIndex(it.item_name.s)][NameIndex(u.item_name.s)]
       IN  100 * r[1] >= 92 * r[2]
    /\ it.item_amount.k = "fin" /\ u.item_amount.k = "fin"
    /\ it.item_amount.v - u.item_amount.v <= 2
    /\ u.item_amount.v - it.item_amount.v <= 2

\* K is the set of accepted positions of items: a position is accepted exactly
\* when no accepted position before it holds a match
C3_Accepted(items, K) ==
    \A i \in 1..Len(items) :
        i \in K <=> ~\E j \in K : j < i /\ C3_Matches(items[i], items[j])

\* the items of the positions K, in input order
RECURSIVE C3_Select(_, _, _)
C3_Select(items, K, i) ==
    IF i > Len(items) THEN <<>>
    ELSE (IF i \in K THEN <<items[i]>> ELSE <<>>) \o C3_Select(items, K, i + 1)

\* C3: dedupe_items goes through the items in input order and discards a
\* candidate exactly when an already accepted item has name similarity >= 0.92
\* and amount difference <= 1.0; the result is the accepted items in input
\* order. The same name with amounts 5.0 and 8.0 keeps both; two near-identical
\* names with amounts 10.0 and 10.5 keep the first only.
C3_GreedyFirstWins ==
    dStage \in {"once", "twice"} =>
        /\ dOnce.ok
        /\ \E K \in SUBSET (1..Len(dItems)) :
              C3_Accepted(dItems, K) /\ dOnce.v = C3_Select(dItems, K, 1)
        /\ dItems = <<Syringe5, Syringe8>> => dOnce.v = <<Syringe5, Syringe8>>
        /\ dItems = <<Paracetamol10, Paracetamol10_5>> => dOnce.v = <<Paracetamol10>>

C3_Witness ==
    /\ dStage = "once"
    /\ dItems = <<Syringe5, Syringes6, Syringe8>>
    /\ dOnce.v = <<Syringe5, Syringe8>>

\* C4: once a page's model call raises or its response cannot be parsed the run
\* fails as a whole: nothing is returned, the call is not made again, and no
\* call is made for a later page. Every call made is for the next page, and a
\* run that goes on or returns has had every call so far succeed.
C4_PageFailureIsFatal ==
    /\ \A i \in 1..Len(calls) : calls[i] = i
    /\ pc \in {"loop", "done"} =>
          /\ Len(calls) = page_no
          /\ Len(pagewise_output) = page_no
    /\ pc = "done" => result.returned /\ page_no = pages
    /\ pc = "failed" =>
          /\ result = NoResult
          /\ ~ENABLED ProcessPage
          /\ ~ENABLED Return

C4_Witness ==
    /\ pc = "failed"
    /\ pages = 2
    /\ calls = <<1>>
    /\ error = ParseFailedDetail

\* the exceptions that no item of a page causes
ErrorsNotFromItems ==
    {"decoding failed", "model call failed", NoJsonDetail, ParseFailedDetail,
     "TypeError: int += None", "TypeError: NoneType is not iterable"}

\* C5: a malformed single item is never fatal: every page's bill_items holds, in
\* order, the items of the page that have all four fields with values float()
\* accepts, the others are dropped, and no run fails because of an item.
C5_MalformedItemNeverFatal ==
    /\ \A k \in 1..Len(pagewise_output) :
          Len(pagewise_output[k].bill_items) = Cardinality(KeptPositions(page_data[k].items))
    /\ pc = "failed" => error \in ErrorsNotFromItems

\* C6: usage accounting never fails the request: no run fails on adding a usage
\* counter, whatever counters the response's usage metadata has or lacks.
C6_UsageNeverFails == pc = "failed" => error # "TypeError: int += None"

\* C7: find_json raises the no-JSON error exactly when the text has no "{" or
\* no "}"; otherwise it takes the span from the first "{" to the last "}",
\* raises the distinct parsing error when the span is not valid JSON (as when
\* the last "}" precedes the first "{"), and returns the decoded object when it is.
C7_FindJsonFailures ==
    jStage = "done" =>
        LET opens == {i \in 1..Len(jText) : jText[i] = "{"}
            closes == {i \in 1..Len(jText) : jText[i] = "}"}
        IN  /\ (jOut.kind = "HTTPException" /\ jOut.detail = NoJsonDetail)
                  <=> (opens = {} \/ closes = {})
            /\ NoJsonDetail # ParseFailedDetail
            /\ (opens # {} /\ closes # {}) =>
                  LET first == CHOOSE i \in opens : \A j \in opens : i <= j
                      last == CHOOSE i \in closes : \A j \in closes : j <= i
                      span == IF last < first THEN <<>> ELSE SubSeq(jText, first, last)
                      decoded == json_loads(span)
                  IN  /\ last < first => ~decoded.ok
                      /\ ~decoded.ok =>
                            jOut.kind = "HTTPException" /\ jOut.detail = ParseFailedDetail
                      /\ decoded.ok => jOut.kind = "return" /\ jOut.val = decoded.val

C7_Witness ==
    /\ jStage = "done"
    /\ jText = <<"}", "w", "{">>
    /\ jOut.kind = "HTTPException"
    /\ jOut.detail = ParseFailedDetail

\* C8: on a successful run over n >= 1 pages pagewise_line_items has exactly n
\* entries, the k-th with page_no = k, the items extracted from the k-th page
\* and its page_type, "Bill Detail" when the parsed object has none; during the
\* run the entries so far are those of the pages processed, in page order.
C8_OneEntryPerPageInOrder ==
    /\ pc \in {"loop", "done"} =>
          /\ pages >= 1
          /\ Len(pagewise_output) = page_no
          /\ Len(page_data) = page_no
          /\ \A k \in 1..Len(pagewise_output) :
                /\ pagewise_output[k].page_no = k
                /\ pagewise_output[k].bill_items = NormalizeItems(page_data[k].items)
                /\ pagewise_output[k].page_type =
                      (IF page_data[k].page_type = "" THEN "Bill Detail" ELSE page_data[k].page_type)
    /\ pc = "done" =>
          /\ result.pagewise_output = pagewise_output
          /\ Len(result.pagewise_output) = pages

C8_Witness ==
    /\ pc = "done"
    /\ pages = 2
    /\ page_data[1].page_type = "Pharmacy"
    /\ page_data[2].page_type = ""
    /\ result.pagewise_output[1].page_type = "Pharmacy"
    /\ result.pagewise_output[2].page_type = "Bill Detail"
    /\ result.pagewise_output[2].page_no = 2
    /\ Len(result.pagewise_output[1].bill_items) = 2

\* the decoders of a sequence of attempts
Decoders(as) == [i \in 1..Len(as) |-> as[i].decoder]
IsPrefix(p, q) == Len(p) <= Len(q) /\ \A i \in 1..Len(p) : p[i] = q[i]
\* the hints ending in .pdf, whatever the case
PdfHints == {BillPdf, BillPdfUpper}

\* what both the claim and its amendment say once the order is fixed: the
\* chain stops at the first success, fails only when every attempt failed, and
\* a success has at least one page, exactly one from an image decode
C9_StopsAtFirstSuccess(order) ==
    /\ Len(rOut.attempts) >= 1
    /\ IsPrefix(Decoders(rOut.attempts), order)
    /\ \A i \in 1..(Len(rOut.attempts) - 1) : ~rOut.attempts[i].ok
    /\ rOut.ok <=> rOut.attempts[Len(rOut.attempts)].ok
    /\ ~rOut.ok => Len(rOut.attempts) = Len(order)
    /\ rOut.ok =>
          /\ rOut.pages >= 1
          /\ rOut.from = rOut.attempts[Len(rOut.attempts)].decoder
          /\ rOut.from = "img" => rOut.pages = 1

FiniteItem(itm) ==
    IsFinite(itm.item_amount) /\ IsFinite(itm.item_rate) /\ IsFinite(itm.item_quantity)

\* C10: every item of a page's bill_items and of the deduplicated list has a
\* finite item_amount, item_rate and item_quantity.
C10_AllItemsFinite ==
    /\ \A k \in 1..Len(pagewise_output) :
          \A i \in 1..Len(pagewise_output[k].bill_items) :
              FiniteItem(pagewise_output[k].bill_items[i])
    /\ \A i \in 1..Len(result.unique_items) : FiniteItem(result.unique_items[i])

====
